---- MODULE Spec2Model ----
(***************************************************************************)
(* Model of the fluxo core (src/src/ast): expressions with de Bruijn       *)
(* indices, the typing context, substitution, beta-reduction and the type  *)
(* derivation procedure, as the Rust code computes them.                   *)
(***************************************************************************)
EXTENDS Integers, Sequences, FiniteSets, TLC

VARIABLES
    ctx,    \* the caller's typing context (Ctx.map): a function Var -> Exp
    exp,    \* the expression the caller holds, built with the constructors
    op,     \* the last operation the caller ran
    res     \* the Result that operation returned

vars == <<ctx, exp, op, res>>

(***************************************************************************)
(* Bounds of the model.                                                    *)
(***************************************************************************)
\* Largest number of binary constructor calls (new_abs, new_for, new_app)
\* in an exhaustively enumerated expression.
MaxOps == 1
\* Largest number of binders and applications of an expression that a further
\* constructor call is applied to.
MaxBuild == 2
\* Largest depth of the index that subst tracks.
MaxLoc == 2

(***************************************************************************)
(* ast/var.rs, ast/exp.rs: the data model.                                 *)
(***************************************************************************)
\* Exp::Var(VarIdx::Var(Var(v))): a free (symbolic) occurrence.
VarE(v) == [k |-> "Var", v |-> v]
\* Exp::Var(VarIdx::Idx(Idx(n, Var(v)))): a bound occurrence of depth n.
IdxE(n, v) == [k |-> "Idx", n |-> n, v |-> v]
Abs(v, t, e) == [k |-> "Abs", v |-> v, t |-> t, e |-> e]
For(v, t, e) == [k |-> "For", v |-> v, t |-> t, e |-> e]
App(f, s) == [k |-> "App", f |-> f, s |-> s]
TypeMeta == [k |-> "TypeMeta"]
KindMeta == [k |-> "KindMeta"]

\* Idx(n, Var(v)) on its own (the loc of subst, the tracked index of index).
Idx(n, v) == [n |-> n, v |-> v]
IdxNew(v) == Idx(0, v)
IdxInc(i) == Idx(i.n + 1, i.v)
IdxDec(i) == Idx(i.n - 1, i.v)
\* Ord for Idx with the two sides exchanged.
IdxCmpReversed(a, b) ==
    IF a.n = b.n THEN "Equal" ELSE IF a.n < b.n THEN "Greater" ELSE "Less"
\* Ord for Idx: the depths alone are compared.
IdxCmp(a, b) == IF a.n = b.n THEN "Equal" ELSE IF a.n > b.n THEN "Greater" ELSE "Less"

\* VarIdx::get_var on a variable expression.
GetVar(e) == e.v

(***************************************************************************)
(* err.rs: results and the error taxonomy.                                 *)
(***************************************************************************)
Ok(x) == [ok |-> TRUE, val |-> x]
OkUnit == [ok |-> TRUE]
Err(x) == [ok |-> FALSE, err |-> x]
\* TypeCompatErr.msg is a rendering of exp and is left out.
TypeCompatErr(e, t, acc) == [kind |-> "TypeCompatErr", exp |-> e, typ |-> t, acc |-> acc]
TypeUndefErr(e) == [kind |-> "TypeUndefErr", exp |-> e]
TypeUnknownErr(v) == [kind |-> "TypeUnknownErr", var |-> v]
TypeRedeclErr(v, t, u) == [kind |-> "TypeRedeclErr", var |-> v, typ |-> t, upd |-> u]

(***************************************************************************)
(* ast/ctx.rs: the typing context.                                         *)
(***************************************************************************)
CtxNew == <<>>
Has(c, v) == v \in DOMAIN c
\* put without the comparison with the type already bound.
CtxPutOverwrite(c, v, t) ==
    [ok |-> TRUE, map |-> [w \in DOMAIN c \cup {v} |-> IF w = v THEN t ELSE c[w]]]
\* Ctx::put: the Result, with the map as the call leaves it.
CtxPut(c, v, t) ==
    IF Has(c, v) /\ c[v] # t
    THEN [ok |-> FALSE, err |-> TypeRedeclErr(v, c[v], t), map |-> c]
    ELSE [ok |-> TRUE, map |-> [w \in DOMAIN c \cup {v} |-> IF w = v THEN t ELSE c[w]]]
\* get with * as the type of a variable that is not bound.
CtxGetDefault(c, v) == IF Has(c, v) THEN Ok(c[v]) ELSE Ok(TypeMeta)
CtxGet(c, v) == IF Has(c, v) THEN Ok(c[v]) ELSE Err(TypeUnknownErr(v))
CtxExtend(c, v, t) ==
    LET can == CtxPut(c, v, t)
    IN IF can.ok THEN Ok(can.map) ELSE Err(can.err)
\* remove that returns the receiver's bindings when the variable is not bound.
CtxRemoveLenient(c, v) == Ok([w \in DOMAIN c \ {v} |-> c[w]])
CtxRemove(c, v) ==
    IF Has(c, v)
    THEN Ok([w \in DOMAIN c \ {v} |-> c[w]])
    ELSE Err(TypeUnknownErr(v))
\* Ctx::subtract, which the VAR rule calls: ctx.rs has no method of that name,
\* and the design names it as another name of remove.
CtxSubtract(c, v) == CtxRemove(c, v)
\* extend that puts into the receiver instead of into its clone.
CtxExtendInPlace(c, v, t) == CtxPut(c, v, t).map
\* The receiver (&self) as extend and remove leave it: both work on a clone.
SelfAfterExtend(c, v, t) == c
SelfAfterRemove(c, v) == c

(***************************************************************************)
(* ast/exp.rs: indexing and the constructors.                              *)
(***************************************************************************)
RECURSIVE IndexNoInc(_, _)
RECURSIVE Index(_, _)

\* index with the tracked index left as it is when a binder is entered.
IndexNoInc(e, idx) ==
    CASE e.k = "Var" -> IF e.v = idx.v THEN IdxE(idx.n, idx.v) ELSE e
      [] e.k = "Abs" -> IF e.v # idx.v THEN Abs(e.v, e.t, IndexNoInc(e.e, idx)) ELSE e
      [] e.k = "For" -> IF e.v # idx.v THEN For(e.v, e.t, IndexNoInc(e.e, idx)) ELSE e
      [] e.k = "App" -> App(IndexNoInc(e.f, idx), IndexNoInc(e.s, idx))
      [] OTHER -> e

Index(e, idx) ==
    CASE e.k = "Var" -> IF e.v = idx.v THEN IdxE(idx.n, idx.v) ELSE e
      [] e.k = "Abs" -> IF e.v # idx.v THEN Abs(e.v, e.t, Index(e.e, IdxInc(idx))) ELSE e
      [] e.k = "For" -> IF e.v # idx.v THEN For(e.v, e.t, Index(e.e, IdxInc(idx))) ELSE e
      [] e.k = "App" -> App(Index(e.f, idx), Index(e.s, idx))
      [] OTHER -> e

NewVar(v) == VarE(v)
NewAbs(v, t, e) == Abs(v, t, Index(e, IdxNew(v)))
NewFor(v, t, e) == For(v, t, Index(e, IdxNew(v)))
NewApp(f, s) == App(f, s)

(***************************************************************************)
(* ast/exp.rs: substitution, reduction and type derivation.                *)
(***************************************************************************)
RECURSIVE SubstNoInc(_, _, _)
RECURSIVE SubstByName(_, _, _)
RECURSIVE Subst(_, _, _)

\* subst that replaces an occurrence only when its name is the tracked name too.
SubstByName(e, loc, can) ==
    CASE e.k = "Var" -> e
      [] e.k = "Idx" ->
            LET c == IdxCmp(Idx(e.n, e.v), loc)
            IN IF c = "Equal" THEN (IF e.v = loc.v THEN can ELSE e)
               ELSE IF c = "Greater" THEN IdxE(IdxDec(Idx(e.n, e.v)).n, e.v)
               ELSE e
      [] e.k = "Abs" -> Abs(e.v, e.t, SubstByName(e.e, IdxInc(loc), can))
      [] e.k = "For" -> For(e.v, e.t, SubstByName(e.e, IdxInc(loc), can))
      [] e.k = "App" -> App(SubstByName(e.f, loc, can), SubstByName(e.s, loc, can))
      [] OTHER -> e

\* subst with the tracked index left as it is when a binder is entered.
SubstNoInc(e, loc, can) ==
    CASE e.k = "Var" -> e
      [] e.k = "Idx" ->
            LET c == IdxCmp(Idx(e.n, e.v), loc)
            IN IF c = "Equal" THEN can
               ELSE IF c = "Greater" THEN IdxE(IdxDec(Idx(e.n, e.v)).n, e.v)
               ELSE e
      [] e.k = "Abs" -> Abs(e.v, e.t, SubstNoInc(e.e, loc, can))
      [] e.k = "For" -> For(e.v, e.t, SubstNoInc(e.e, loc, can))
      [] e.k = "App" -> App(SubstNoInc(e.f, loc, can), SubstNoInc(e.s, loc, can))
      [] OTHER -> e

Subst(e, loc, can) ==
    CASE e.k = "Var" -> e
      [] e.k = "Idx" ->
            LET c == IdxCmp(Idx(e.n, e.v), loc)
            IN IF c = "Equal" THEN can
               ELSE IF c = "Greater" THEN IdxE(IdxDec(Idx(e.n, e.v)).n, e.v)
               ELSE e
      [] e.k = "Abs" -> Abs(e.v, e.t, Subst(e.e, IdxInc(loc), can))
      [] e.k = "For" -> For(e.v, e.t, Subst(e.e, IdxInc(loc), can))
      [] e.k = "App" -> App(Subst(e.f, loc, can), Subst(e.s, loc, can))
      [] OTHER -> e

Sorts == <<TypeMeta, KindMeta>>

RECURSIVE CalculateType(_, _)
RECURSIVE ValidateType(_, _, _)
RECURSIVE Reduce(_, _)
RECURSIVE ReduceOnce(_, _)

Reduce(e, c) ==
    LET q == ReduceOnce(e, c)
    IN IF ~q.ok THEN q
       ELSE IF e = q.val THEN Ok(q.val)
       ELSE ReduceOnce(q.val, c)

ValidateType(e, typ, c) ==
    LET act == CalculateType(e, c)
    IN IF ~act.ok THEN act
       ELSE IF \E i \in 1..Len(typ) : act.val = typ[i] THEN OkUnit
       ELSE Err(TypeCompatErr(e, act.val, typ))

\* VAR RULE with the declared type accepted only when its type is *.
VarRuleStarOnly(e, c) ==
    LET var == GetVar(e)
        typ == CtxGet(c, var)
        sub == CtxSubtract(c, var)
        chk == ValidateType(typ.val, <<TypeMeta>>, sub.val)
    IN IF ~typ.ok THEN typ
       ELSE IF ~sub.ok THEN sub
       ELSE IF ~chk.ok THEN chk
       ELSE Reduce(typ.val, c)

\* VAR RULE: a variable occurrence, free or bound, is looked up by its name.
VarRule(e, c) ==
    LET var == GetVar(e)
        typ == CtxGet(c, var)
        sub == CtxSubtract(c, var)
        chk == ValidateType(typ.val, Sorts, sub.val)
    IN IF ~typ.ok THEN typ
       ELSE IF ~sub.ok THEN sub
       ELSE IF ~chk.ok THEN chk
       ELSE Reduce(typ.val, c)

\* ABST RULE without the check that the resulting Π has a sort.
AbstRuleUnchecked(e, c) ==
    LET ext == CtxExtend(c, e.v, e.t)
        bty == CalculateType(e.e, ext.val)
    IN IF ~ext.ok THEN ext
       ELSE IF ~bty.ok THEN bty
       ELSE Ok(For(e.v, e.t, bty.val))

\* ABST RULE
AbstRule(e, c) ==
    LET ext == CtxExtend(c, e.v, e.t)
        bty == CalculateType(e.e, ext.val)
        can == For(e.v, e.t, bty.val)
        chk == ValidateType(can, Sorts, c)
    IN IF ~ext.ok THEN ext
       ELSE IF ~bty.ok THEN bty
       ELSE IF ~chk.ok THEN chk
       ELSE Ok(can)

\* FORM RULE with the parameter type accepted only when its type is *.
FormRuleStarOnly(e, c) ==
    LET ext == CtxExtend(c, e.v, e.t)
        can == CalculateType(e.e, ext.val)
        chk == ValidateType(e.t, <<TypeMeta>>, c)
    IN IF ~ext.ok THEN ext
       ELSE IF ~can.ok THEN can
       ELSE IF ~chk.ok THEN chk
       ELSE can

\* FORM RULE
FormRule(e, c) ==
    LET ext == CtxExtend(c, e.v, e.t)
        can == CalculateType(e.e, ext.val)
        chk == ValidateType(e.t, Sorts, c)
    IN IF ~ext.ok THEN ext
       ELSE IF ~can.ok THEN can
       ELSE IF ~chk.ok THEN chk
       ELSE can

\* APPL RULE without the check of the argument against the parameter type.
ApplRuleUnchecked(e, c) ==
    LET fty == CalculateType(e.f, c)
        sty == CalculateType(e.s, c)
    IN IF ~fty.ok THEN fty
       ELSE IF ~sty.ok THEN sty
       ELSE IF fty.val.k = "For"
            THEN Reduce(Subst(fty.val.e, IdxNew(fty.val.v), e.s), c)
            ELSE Err(TypeCompatErr(e.s, sty.val, <<>>))

\* APPL RULE
ApplRule(e, c) ==
    LET fty == CalculateType(e.f, c)
        sty == CalculateType(e.s, c)
        chk == ValidateType(e.s, <<fty.val.t>>, c)
    IN IF ~fty.ok THEN fty
       ELSE IF ~sty.ok THEN sty
       ELSE IF fty.val.k = "For"
            THEN IF ~chk.ok THEN chk
                 ELSE Reduce(Subst(fty.val.e, IdxNew(fty.val.v), e.s), c)
            ELSE Err(TypeCompatErr(e.s, sty.val, <<>>))

\* SORT RULE with □ given the type □.
SortRuleKindTyped(e) == Ok(KindMeta)

\* SORT RULE, and the kind of all kinds, which has no type.
SortRule(e) ==
    IF e.k = "TypeMeta" THEN Ok(KindMeta) ELSE Err(TypeUndefErr(e))

CalculateType(e, c) ==
    CASE e.k \in {"Var", "Idx"} -> VarRule(e, c)
      [] e.k = "Abs" -> AbstRule(e, c)
      [] e.k = "For" -> FormRule(e, c)
      [] e.k = "App" -> ApplRule(e, c)
      [] e.k \in {"TypeMeta", "KindMeta"} -> SortRule(e)

\* reduce_once without the type calculation that precedes the step.
ReduceOnceUnchecked(e, c) ==
    CASE e.k \in {"Abs", "For"} ->
            LET t == Reduce(e.t, c)
                b == Reduce(e.e, c)
            IN IF ~t.ok THEN t
               ELSE IF ~b.ok THEN b
               ELSE Ok([k |-> e.k, v |-> e.v, t |-> t.val, e |-> b.val])
      [] e.k = "App" ->
            IF e.f.k = "Abs"
            THEN Ok(Subst(e.f.e, IdxNew(e.f.v), e.s))
            ELSE LET f == Reduce(e.f, c)
                     s == Reduce(e.s, c)
                 IN IF ~f.ok THEN f
                    ELSE IF ~s.ok THEN s
                    ELSE Ok(App(f.val, s.val))
      [] OTHER -> Ok(e)

ReduceOnce(e, c) ==
    LET ty == CalculateType(e, c)
    IN IF ~ty.ok THEN ty
       ELSE CASE e.k \in {"Abs", "For"} ->
                    LET t == Reduce(e.t, c)
                        b == Reduce(e.e, c)
                    IN IF ~t.ok THEN t
                       ELSE IF ~b.ok THEN b
                       ELSE Ok([k |-> e.k, v |-> e.v, t |-> t.val, e |-> b.val])
              [] e.k = "App" ->
                    IF e.f.k = "Abs"
                    THEN Ok(Subst(e.f.e, IdxNew(e.f.v), e.s))
                    ELSE LET f == Reduce(e.f, c)
                             s == Reduce(e.s, c)
                         IN IF ~f.ok THEN f
                            ELSE IF ~s.ok THEN s
                            ELSE Ok(App(f.val, s.val))
              [] OTHER -> Ok(e)

(***************************************************************************)
(* The inputs of a session: every expression the constructors build with   *)
(* at most MaxOps binary constructor calls over Names, and the named       *)
(* expressions of the typing rules' documentation and of the tests.        *)
(***************************************************************************)
Names == {"T", "x"}
Atoms == {NewVar(v) : v \in Names} \cup {TypeMeta, KindMeta}

RECURSIVE BuiltN(_)
BuiltN(n) ==
    IF n = 0 THEN Atoms
    ELSE UNION { UNION { {NewApp(f, s) : s \in BuiltN(n - 1 - i)}
                         \cup {NewAbs(v, f, s) : v \in Names, s \in BuiltN(n - 1 - i)}
                         \cup {NewFor(v, f, s) : v \in Names, s \in BuiltN(n - 1 - i)}
                         : f \in BuiltN(i) } : i \in 0..(n - 1) }
Built == UNION {BuiltN(n) : n \in 0..MaxOps}

\* (λa:*.λx:a.x) T
ExApplDep ==
    NewApp(NewAbs("a", TypeMeta, NewAbs("x", NewVar("a"), NewVar("x"))), NewVar("T"))
\* (λx:*.(λy:*.(λz:*.z) y) x) T
ExNested ==
    NewApp(NewAbs("x", TypeMeta,
               NewApp(NewAbs("y", TypeMeta,
                          NewApp(NewAbs("z", TypeMeta, NewVar("z")), NewVar("y"))),
                      NewVar("x"))),
           NewVar("T"))
\* λy:T.((λx:T.λz:T.x) y)
ExCapture ==
    NewAbs("y", NewVar("T"),
        NewApp(NewAbs("x", NewVar("T"), NewAbs("z", NewVar("T"), NewVar("x"))),
               NewVar("y")))
\* λx:*.λm:*.(λk:*.k) m, the expression of test_type_calculation_001
ExTest001 ==
    NewAbs("x", TypeMeta,
        NewAbs("m", TypeMeta,
            NewApp(NewAbs("k", TypeMeta, NewVar("k")), NewVar("m"))))
\* (λv:((λk:*.k) T).v) y
ExConv ==
    NewApp(NewAbs("v", NewApp(NewAbs("k", TypeMeta, NewVar("k")), NewVar("T")),
               NewVar("v")),
           NewVar("y"))
\* (λx:*.x) y: with y : T, an argument whose type is not the parameter type
ExArgMismatch == NewApp(NewAbs("x", TypeMeta, NewVar("x")), NewVar("y"))
\* Πx:y.*: with y : T, a parameter type that is a term
ExFormTerm == NewFor("x", NewVar("y"), TypeMeta)
\* λx:T.λx:y.x: with T : * and y : *, a nested binder that reuses the name x
ExShadow == NewAbs("x", NewVar("T"), NewAbs("x", NewVar("y"), NewVar("x")))
\* λy:T.((λx:*.y) T): the body of the redex holds an occurrence bound outside it
ExOuterRef ==
    NewAbs("y", NewVar("T"),
        NewApp(NewAbs("x", TypeMeta, NewVar("y")), NewVar("T")))
\* (λx:T.x x) (λx:T.x x), the self-application
ExOmega ==
    NewApp(NewAbs("x", NewVar("T"), NewApp(NewVar("x"), NewVar("x"))),
           NewAbs("x", NewVar("T"), NewApp(NewVar("x"), NewVar("x"))))
Examples ==
    {ExApplDep, ExNested, ExCapture, ExTest001, ExConv, ExArgMismatch, ExFormTerm,
     ExShadow, ExOuterRef, ExOmega}

Inputs == Built \cup Examples

\* The variables and the types the caller declares with Ctx::put.
CtxVars == {"T", "x", "y"}
CtxTyps == {TypeMeta, NewVar("T"), NewVar("x")}

(***************************************************************************)
(* The session: the caller holds an expression, declares variables with    *)
(* Ctx::put, and asks for the expression's type or its reduced form.       *)
(***************************************************************************)
Init ==
    /\ ctx = CtxNew
    /\ exp \in Inputs
    /\ op = "new"
    /\ res = OkUnit

\* ctx.put(v, t)
Put(v, t) ==
    LET r == CtxPut(ctx, v, t)
    IN /\ ctx' = r.map
       /\ op' = "put"
       /\ res' = IF r.ok THEN OkUnit ELSE Err(r.err)
       /\ UNCHANGED exp

\* exp.calculate_type(&ctx)
Type ==
    /\ op' = "type"
    /\ res' = CalculateType(exp, ctx)
    /\ UNCHANGED <<ctx, exp>>

\* exp.reduce(&ctx)
Show ==
    /\ op' = "show"
    /\ res' = Reduce(exp, ctx)
    /\ UNCHANGED <<ctx, exp>>

Next ==
    \/ \E v \in CtxVars, t \in CtxTyps : Put(v, t)
    \/ Type
    \/ Show

Spec == Init /\ [][Next]_vars

(***************************************************************************)
(* Vocabulary of the properties.                                           *)
(***************************************************************************)
\* The result is a derived type that is one of the sorts * and □.
IsSort(r) == r.ok /\ r.val \in {TypeMeta, KindMeta}

\* Beta-normal: no application whose function side is a literal λ.
RECURSIVE NoRedex(_)
NoRedex(e) ==
    CASE e.k \in {"Abs", "For"} -> NoRedex(e.t) /\ NoRedex(e.e)
      [] e.k = "App" -> e.f.k # "Abs" /\ NoRedex(e.f) /\ NoRedex(e.s)
      [] OTHER -> TRUE

\* Every bound occurrence of depth n lies under more than n binders (bs lists
\* their names, innermost first) and the n-th of them carries its name.
RECURSIVE WellIndexed(_, _)
WellIndexed(e, bs) ==
    CASE e.k = "Idx" -> e.n < Len(bs) /\ bs[e.n + 1] = e.v
      [] e.k \in {"Abs", "For"} -> WellIndexed(e.t, bs) /\ WellIndexed(e.e, <<e.v>> \o bs)
      [] e.k = "App" -> WellIndexed(e.f, bs) /\ WellIndexed(e.s, bs)
      [] OTHER -> TRUE

\* B[x := N]: N in place of every occurrence of the binder's variable x in the
\* body b of Πx:A.b, where d binders of b have been entered.
RECURSIVE SubstOcc(_, _, _, _)
SubstOcc(b, x, d, n) ==
    CASE b.k = "Var" -> IF b.v = x THEN n ELSE b
      [] b.k = "Idx" -> IF b.n = d /\ b.v = x THEN n
                        ELSE IF b.n > d THEN IdxE(b.n - 1, b.v) ELSE b
      [] b.k \in {"Abs", "For"} ->
            [k |-> b.k, v |-> b.v, t |-> SubstOcc(b.t, x, d, n),
             e |-> IF b.v = x THEN b.e ELSE SubstOcc(b.e, x, d + 1, n)]
      [] b.k = "App" -> App(SubstOcc(b.f, x, d, n), SubstOcc(b.s, x, d, n))
      [] OTHER -> b

\* The variable occurrences, free and bound, of an expression.
RECURSIVE VarOccs(_)
VarOccs(e) ==
    CASE e.k \in {"Var", "Idx"} -> {e}
      [] e.k \in {"Abs", "For"} -> VarOccs(e.t) \cup VarOccs(e.e)
      [] e.k = "App" -> VarOccs(e.f) \cup VarOccs(e.s)
      [] OTHER -> {}

T == NewVar("T")

(***************************************************************************)
(* C1. APPL rule: when M has type Πx:A.B and N has type A, the type of     *)
(* M N is derived and is B with N in place of every occurrence of x,       *)
(* reduced; under {T:*}, (λa:*.λx:a.x) T has type Πx:T.T.                  *)
(***************************************************************************)
C1_ApplRule ==
    (op = "type" /\ exp.k = "App") =>
        LET fty == CalculateType(exp.f, ctx)
            sty == CalculateType(exp.s, ctx)
        IN (fty.ok /\ sty.ok /\ fty.val.k = "For" /\ sty.val = fty.val.t) =>
              LET want == SubstOcc(fty.val.e, fty.val.v, 0, exp.s)
              IN /\ res.ok
                 /\ NoRedex(res.val)
                 /\ NoRedex(want) => res.val = want

(***************************************************************************)
(* C2. reduce returns a beta-normal form of a well-typed expression: a     *)
(* further reduction pass leaves the result unchanged, and the result has  *)
(* no application whose function side is a literal λ.                      *)
(***************************************************************************)
C2_ReduceNormal ==
    (op = "show" /\ CalculateType(exp, ctx).ok /\ res.ok) =>
        /\ ReduceOnce(res.val, ctx) = Ok(res.val)
        /\ NoRedex(res.val)

(***************************************************************************)
(* C3. Beta-substitution is capture-avoiding: in the reduced expression    *)
(* every bound occurrence still has the depth of the binder it names;      *)
(* λy:T.((λx:T.λz:T.x) y) reduces to λy:T.λz:T.y with y at depth 1.        *)
(***************************************************************************)
C3_CaptureAvoiding ==
    (op = "show" /\ res.ok /\ WellIndexed(exp, <<>>)) =>
        /\ WellIndexed(res.val, <<>>)
        /\ exp = ExCapture => res.val = Abs("y", T, Abs("z", T, IdxE(1, "y")))

\* The parts of the ABST judgment of the held expression λx:A.M.
AbstExt == CtxExtend(ctx, exp.v, exp.t)
AbstBody == CalculateType(exp.e, AbstExt.val)
AbstPi == For(exp.v, exp.t, AbstBody.val)
AbstPiType == CalculateType(AbstPi, ctx)

(***************************************************************************)
(* C4, as stated. ABST rule: the type of λx:A.M is Πx:A.B with B the type  *)
(* of M under ctx extended with x:A; it is derived only if that Π has type *)
(* * or □ under the original ctx, and otherwise the failure is a           *)
(* type-incompatibility error.                                             *)
(***************************************************************************)
C4_AbstRuleAsStated ==
    (op = "type" /\ exp.k = "Abs") =>
        /\ res.ok => /\ AbstExt.ok /\ AbstBody.ok
                     /\ res.val = AbstPi
                     /\ IsSort(AbstPiType)
        /\ (AbstExt.ok /\ AbstBody.ok /\ ~IsSort(AbstPiType)) =>
                ~res.ok /\ res.err.kind = "TypeCompatErr"

(***************************************************************************)
(* C4, amended. ABST rule: the type of λx:A.M is Πx:A.B with B the type of *)
(* M under ctx extended with x:A; it is derived exactly when the extension *)
(* and B are and that Π has type * or □ under the original ctx; when the   *)
(* type of that Π cannot be derived, the error of that derivation is       *)
(* returned. Where x is not declared, λx:*.λm:*.(λk:*.k) m has type        *)
(* Πx:*.Πm:*.*.                                                            *)
(***************************************************************************)
C4_AbstRule ==
    (op = "type" /\ exp.k = "Abs") =>
        /\ res.ok => /\ AbstExt.ok /\ AbstBody.ok
                     /\ res.val = AbstPi
                     /\ IsSort(AbstPiType)
        /\ (AbstExt.ok /\ AbstBody.ok /\ IsSort(AbstPiType)) => res = Ok(AbstPi)
        /\ (AbstExt.ok /\ AbstBody.ok /\ ~AbstPiType.ok) => res = AbstPiType
        /\ (exp = ExTest001 /\ ~Has(ctx, "x")) =>
                /\ res = Ok(For("x", TypeMeta, For("m", TypeMeta, TypeMeta)))
                /\ CalculateType(exp, CtxPut(ctx, "w", TypeMeta).map) = res

\* λx:*.λm:*.(λk:*.k) m has been given its type under a context that declares T.
C4_Witness ==
    /\ op = "type" /\ exp = ExTest001 /\ Has(ctx, "T")
    /\ res = Ok(For("x", TypeMeta, For("m", TypeMeta, TypeMeta)))

FormExt == CtxExtend(ctx, exp.v, exp.t)
FormBody == CalculateType(exp.e, FormExt.val)
FormParam == CalculateType(exp.t, ctx)

(***************************************************************************)
(* C6, as stated. FORM rule: the type of Πx:A.B is derived only if A has   *)
(* type * or □ under the original ctx, the failure being a                 *)
(* type-incompatibility error otherwise, and it is the type of B under ctx *)
(* extended with x:A.                                                      *)
(***************************************************************************)
C6_FormRuleAsStated ==
    (op = "type" /\ exp.k = "For") =>
        /\ res.ok => IsSort(FormParam) /\ FormExt.ok /\ res = FormBody
        /\ ~IsSort(FormParam) => ~res.ok /\ res.err.kind = "TypeCompatErr"

(***************************************************************************)
(* C6, amended. FORM rule: the type of Πx:A.B is derived exactly when the  *)
(* extension of ctx with x:A and the type of B under it are and A has type *)
(* * or □ under the original ctx, and it is that type of B. The failure is *)
(* the redeclaration error of the extension, else the error of typing B,   *)
(* else the error of typing A, else a type-incompatibility error carrying  *)
(* A, its type and {*, □}.                                                 *)
(***************************************************************************)
C6_FormRule ==
    (op = "type" /\ exp.k = "For") =>
        /\ res.ok => IsSort(FormParam) /\ FormExt.ok /\ res = FormBody
        /\ ~FormExt.ok => res = FormExt
        /\ (FormExt.ok /\ ~FormBody.ok) => res = FormBody
        /\ (FormExt.ok /\ FormBody.ok /\ ~FormParam.ok) => res = FormParam
        /\ (FormExt.ok /\ FormBody.ok /\ FormParam.ok) =>
                res = IF IsSort(FormParam) THEN FormBody
                      ELSE Err(TypeCompatErr(exp.t, FormParam.val, Sorts))

\* A Π whose parameter type is typed, but not by a sort, has been rejected.
C6_Witness ==
    /\ op = "type" /\ exp.k = "For"
    /\ FormExt.ok /\ FormBody.ok /\ FormParam.ok /\ ~IsSort(FormParam)
    /\ res = Err(TypeCompatErr(exp.t, FormParam.val, Sorts))

(***************************************************************************)
(* C7. SORT rule: under every context the type of * is □, and the type of  *)
(* □ is not derived: an undefined-type error carrying □.                   *)
(***************************************************************************)
C7_SortRule ==
    op = "type" =>
        /\ exp = TypeMeta => res = Ok(KindMeta)
        /\ exp = KindMeta => res = Err(TypeUndefErr(KindMeta))

\* □ has been refused a type under a context with declarations.
C7_Witness ==
    /\ op = "type" /\ exp = KindMeta /\ DOMAIN ctx # {}
    /\ res = Err(TypeUndefErr(KindMeta))

\* The parts of the APPL judgment of the held expression M N.
ApplFun == CalculateType(exp.f, ctx)
ApplArg == CalculateType(exp.s, ctx)

(***************************************************************************)
(* C8. CONV by normalizing before comparison: in M N with M : Πx:A.B, the  *)
(* argument is accepted whenever the type of N and A have the same         *)
(* beta-normal form, also when A is an unreduced redex in M, as in         *)
(* A = (λk:*.k) T with N : T.                                              *)
(***************************************************************************)
\* The type of N and the parameter type A have the same beta-normal form.
C8_SameNormalForm ==
    LET a == Reduce(ApplFun.val.t, ctx)
        n == Reduce(ApplArg.val, ctx)
    IN a.ok /\ n.ok /\ a.val = n.val /\ NoRedex(a.val)

C8_ConvRule ==
    (/\ op = "type" /\ exp.k = "App"
     /\ ApplFun.ok /\ ApplArg.ok /\ ApplFun.val.k = "For"
     /\ C8_SameNormalForm)
    => res # Err(TypeCompatErr(exp.s, ApplArg.val, <<ApplFun.val.t>>))

C10_ReduceIdempotent ==
    (op = "show" /\ CalculateType(exp, ctx).ok /\ res.ok) =>
        Reduce(res.val, ctx) = res

(***************************************************************************)
(* The substitution session: the caller declares T, y, a and b and reduces *)
(* the applications of the substitution examples.                          *)
(***************************************************************************)
\* (λx:T.x) y
ExBetaId == NewApp(NewAbs("x", NewVar("T"), NewVar("x")), NewVar("y"))
\* (λx:T.λz:T.x) a b
ExBetaK ==
    NewApp(NewApp(NewAbs("x", NewVar("T"), NewAbs("z", NewVar("T"), NewVar("x"))),
                  NewVar("a")),
           NewVar("b"))
\* (λx:T.λz:T.x) a
ExBetaKa ==
    NewApp(NewAbs("x", NewVar("T"), NewAbs("z", NewVar("T"), NewVar("x"))), NewVar("a"))
\* λv:((λk:*.k) T).T: a λ whose parameter annotation is a redex
ExAnnotRedex ==
    NewAbs("v", NewApp(NewAbs("k", TypeMeta, NewVar("k")), NewVar("T")), NewVar("T"))
BetaInputs == {ExBetaId, ExBetaK, ExBetaKa, ExAnnotRedex}
BetaVars == {"T", "y", "a", "b"}
BetaTyps == {TypeMeta, NewVar("T")}

InitBeta ==
    /\ ctx = CtxNew
    /\ exp \in BetaInputs
    /\ op = "new"
    /\ res = OkUnit

NextBeta ==
    \/ \E v \in BetaVars, t \in BetaTyps : Put(v, t)
    \/ Type
    \/ Show

SpecBeta == InitBeta /\ [][NextBeta]_vars

\* The context declares T : *, y : T, a : T and b : T.
BetaCtx ==
    /\ DOMAIN ctx = BetaVars
    /\ ctx["T"] = TypeMeta
    /\ \A v \in {"y", "a", "b"} : ctx[v] = T

(***************************************************************************)
(* C11. Beta-substitution across binder depths: where the expression is    *)
(* well-typed, which the context T:*, y:T, a:T, b:T makes it,              *)
(* reduce((λx:T.x) y) = y and reduce((λx:T.λz:T.x) a b) = a (and           *)
(* reduce((λx:T.λz:T.x) a) = λz:T.a).                                      *)
(***************************************************************************)
C11_BetaDepths ==
    op = "show" =>
        /\ BetaCtx => CalculateType(exp, ctx).ok
        /\ CalculateType(exp, ctx).ok =>
                /\ exp = ExBetaId => res = Ok(NewVar("y"))
                /\ exp = ExBetaK => res = Ok(NewVar("a"))
                /\ exp = ExBetaKa => res = Ok(Abs("z", NewVar("T"), NewVar("a")))

\* (λx:T.λz:T.x) a b has been reduced to a under T:*, y:T, a:T, b:T.
C11_Witness ==
    /\ op = "show" /\ exp = ExBetaK /\ BetaCtx
    /\ res = Ok(NewVar("a"))

(***************************************************************************)
(* The construction session: the caller builds an expression bottom-up,    *)
(* each step passing the expression it holds to a constructor, as a        *)
(* binder's body, as a binder's annotation or as a side of an application. *)
(***************************************************************************)
\* x Πy:*.(λw:*.w y) m, the expression of test_exp_idx_0001
ExIdx0001 ==
    NewApp(NewVar("x"),
           NewFor("y", TypeMeta,
               NewApp(NewAbs("w", TypeMeta, NewApp(NewVar("w"), NewVar("y"))),
                      NewVar("m"))))
IdxNames == {"w", "y"}
IdxAtoms == {NewVar(v) : v \in IdxNames} \cup {TypeMeta}
\* The other operand of a constructor call: an atom, or λy:*.y w.
IdxOperands ==
    IdxAtoms \cup {NewAbs("y", TypeMeta, NewApp(NewVar("y"), NewVar("w")))}

\* The number of binders and applications of an expression.
RECURSIVE Nodes(_)
Nodes(e) ==
    CASE e.k \in {"Abs", "For"} -> 1 + Nodes(e.t) + Nodes(e.e)
      [] e.k = "App" -> 1 + Nodes(e.f) + Nodes(e.s)
      [] OTHER -> 0

InitIndex ==
    /\ ctx = CtxNew
    /\ exp \in IdxAtoms \cup {ExIdx0001}
    /\ op = "new"
    /\ res = OkUnit

\* Exp::new_abs(v, t, exp)
AbsBody(v, t) ==
    /\ Nodes(exp) < MaxBuild
    /\ exp' = NewAbs(v, t, exp)
    /\ op' = "new_abs"
    /\ UNCHANGED <<ctx, res>>

\* Exp::new_abs(v, exp, b)
AbsAnnot(v, b) ==
    /\ Nodes(exp) < MaxBuild
    /\ exp' = NewAbs(v, exp, b)
    /\ op' = "new_abs"
    /\ UNCHANGED <<ctx, res>>

\* Exp::new_for(v, t, exp)
ForBody(v, t) ==
    /\ Nodes(exp) < MaxBuild
    /\ exp' = NewFor(v, t, exp)
    /\ op' = "new_for"
    /\ UNCHANGED <<ctx, res>>

\* Exp::new_for(v, exp, b)
ForAnnot(v, b) ==
    /\ Nodes(exp) < MaxBuild
    /\ exp' = NewFor(v, exp, b)
    /\ op' = "new_for"
    /\ UNCHANGED <<ctx, res>>

\* Exp::new_app(exp, s)
AppFst(s) ==
    /\ Nodes(exp) < MaxBuild
    /\ exp' = NewApp(exp, s)
    /\ op' = "new_app"
    /\ UNCHANGED <<ctx, res>>

\* Exp::new_app(f, exp)
AppSnd(f) ==
    /\ Nodes(exp) < MaxBuild
    /\ exp' = NewApp(f, exp)
    /\ op' = "new_app"
    /\ UNCHANGED <<ctx, res>>

NextIndex ==
    \/ \E v \in IdxNames, t \in IdxOperands : AbsBody(v, t)
    \/ \E v \in IdxNames, b \in IdxOperands : AbsAnnot(v, b)
    \/ \E v \in IdxNames, t \in IdxOperands : ForBody(v, t)
    \/ \E v \in IdxNames, b \in IdxOperands : ForAnnot(v, b)
    \/ \E s \in IdxOperands : AppFst(s)
    \/ \E f \in IdxOperands : AppSnd(f)

SpecIndex == InitIndex /\ [][NextIndex]_vars

\* Every resolved occurrence of depth n has n binders of other names between
\* it and a binder of its name (bs lists the names of the enclosing binders
\* whose body the occurrence is in, innermost first).
RECURSIVE InnermostIndexed(_, _)
InnermostIndexed(e, bs) ==
    CASE e.k = "Idx" ->
            /\ e.n < Len(bs)
            /\ bs[e.n + 1] = e.v
            /\ \A j \in 1..e.n : bs[j] # e.v
      [] e.k \in {"Abs", "For"} ->
            InnermostIndexed(e.t, bs) /\ InnermostIndexed(e.e, <<e.v>> \o bs)
      [] e.k = "App" -> InnermostIndexed(e.f, bs) /\ InnermostIndexed(e.s, bs)
      [] OTHER -> TRUE

(***************************************************************************)
(* C12. Indexing invariant: in an expression built with the constructors,  *)
(* every resolved occurrence in a binder's body has a depth equal to the   *)
(* number of binders strictly between it and the innermost enclosing       *)
(* binder of its name; in x Πy:*.(λw:*.w y) m the occurrence of w has      *)
(* depth 0 and the occurrence of y has depth 1.                            *)
(***************************************************************************)
C12_IndexInvariant ==
    /\ InnermostIndexed(exp, <<>>)
    /\ exp = ExIdx0001 => exp.s.e.f.e = App(IdxE(0, "w"), IdxE(1, "y"))

\* A built λ or Π holds, under a nested binder of another name, a resolved
\* occurrence of its own variable at depth 1.
C12_Witness ==
    /\ op \in {"new_abs", "new_for"}
    /\ exp.e.k \in {"Abs", "For"}
    /\ exp.e.v # exp.v
    /\ exp.e.e = IdxE(1, exp.v)

(***************************************************************************)
(* The context session: the caller declares variables with put, looks them *)
(* up with get, derives contexts with extend and remove and goes on with   *)
(* a derived context, and types or reduces an expression under it.         *)
(***************************************************************************)
\* The types declared: Πx:*.x and Πy:*.y differ only in the binder's name.
DeclTyps ==
    {TypeMeta, NewVar("T"),
     NewFor("x", TypeMeta, NewVar("x")), NewFor("y", TypeMeta, NewVar("y"))}
CtxExps == {NewVar("x"), NewAbs("x", NewVar("T"), NewVar("x")), ExTest001}

InitCtx ==
    /\ ctx = CtxNew
    /\ exp \in CtxExps
    /\ op = "new"
    /\ res = OkUnit

\* ctx.get(v)
Get(v) ==
    /\ op' = "get"
    /\ res' = CtxGet(ctx, v)
    /\ UNCHANGED <<ctx, exp>>

\* ctx.extend(v, t)
Extend(v, t) ==
    /\ op' = "extend"
    /\ res' = CtxExtend(ctx, v, t)
    /\ ctx' = SelfAfterExtend(ctx, v, t)
    /\ UNCHANGED exp

\* ctx.remove(v)
Remove(v) ==
    /\ op' = "remove"
    /\ res' = CtxRemove(ctx, v)
    /\ ctx' = SelfAfterRemove(ctx, v)
    /\ UNCHANGED exp

\* The caller goes on with the context that extend or remove returned.
Continue ==
    /\ op \in {"extend", "remove"}
    /\ res.ok
    /\ ctx' = res.val
    /\ op' = "continue"
    /\ res' = OkUnit
    /\ UNCHANGED exp

NextCtx ==
    \/ \E v \in CtxVars, t \in DeclTyps : Put(v, t)
    \/ \E v \in CtxVars : Get(v)
    \/ \E v \in CtxVars, t \in DeclTyps : Extend(v, t)
    \/ \E v \in CtxVars : Remove(v)
    \/ Continue
    \/ Type
    \/ Show

SpecCtx == InitCtx /\ [][NextCtx]_vars

\* c with v bound to t and every other variable as in c.
WithBinding(c, v, t) == [w \in DOMAIN c \cup {v} |-> IF w = v THEN t ELSE c[w]]

(***************************************************************************)
(* C13. Ctx.put(v, T): when v is unbound it inserts v -> T; when v is      *)
(* bound to a structurally equal type it succeeds and leaves the context   *)
(* unchanged; when v is bound to a different type T0 it fails with a       *)
(* redeclaration error carrying v, T0 and T, and leaves the context        *)
(* unchanged.                                                              *)
(***************************************************************************)
C13_PutContract ==
    [][\A v \in CtxVars, t \in DeclTyps : Put(v, t) =>
          /\ ~Has(ctx, v) => res' = OkUnit /\ ctx' = WithBinding(ctx, v, t)
          /\ (Has(ctx, v) /\ ctx[v] = t) => res' = OkUnit /\ ctx' = ctx
          /\ (Has(ctx, v) /\ ctx[v] # t) =>
                res' = Err(TypeRedeclErr(v, ctx[v], t)) /\ ctx' = ctx]_vars

\* A put of Πy:*.y for a variable bound to Πx:*.x has failed, and the
\* variable is still bound to Πx:*.x.
C13_Witness ==
    /\ op = "put" /\ ~res.ok
    /\ res.err.kind = "TypeRedeclErr"
    /\ res.err.typ = NewFor("x", TypeMeta, NewVar("x"))
    /\ res.err.upd = NewFor("y", TypeMeta, NewVar("y"))
    /\ Has(ctx, res.err.var) /\ ctx[res.err.var] = res.err.typ

(***************************************************************************)
(* C14. Context invariant over every sequence of put, extend and remove    *)
(* from the empty context (a context holds one type per Var, being a map): *)
(* the type of a bound Var does not change while it stays bound, in the    *)
(* receiver and in the context extend returns; a Var becomes bound only by *)
(* a successful put(v, T), or by going on with the context a successful    *)
(* extend(v, T) returned, and is then bound to T; and get(v) returns the   *)
(* type v is bound to, or fails with unknown-variable carrying v when v is *)
(* not bound.                                                              *)
(***************************************************************************)
C14_CtxInvariant ==
    [][\A v \in CtxVars :
            /\ (Has(ctx, v) /\ Has(ctx', v)) => ctx'[v] = ctx[v]
            /\ (~Has(ctx, v) /\ Has(ctx', v)) =>
                    \/ \E t \in DeclTyps : Put(v, t) /\ res' = OkUnit /\ ctx'[v] = t
                    \/ Continue /\ op = "extend"
            /\ Get(v) => res' = IF Has(ctx, v) THEN Ok(ctx[v])
                                 ELSE Err(TypeUnknownErr(v))
            /\ \A t \in DeclTyps : (Extend(v, t) /\ res'.ok) =>
                    res'.val = WithBinding(ctx, v, t)]_vars

\* get has returned the type Πx:*.x that a variable is bound to, in a context
\* that binds another variable to Πy:*.y.
C14_Witness ==
    /\ op = "get" /\ res = Ok(NewFor("x", TypeMeta, NewVar("x")))
    /\ \E v, w \in DOMAIN ctx :
            ctx[v] = res.val /\ ctx[w] = NewFor("y", TypeMeta, NewVar("y"))

(***************************************************************************)
(* C15. extend and remove do not mutate: after ctx.extend(v, T) or         *)
(* ctx.remove(v), successful or failed, the receiver has exactly the       *)
(* bindings it had (after a successful extend of a fresh v the receiver    *)
(* lacks v and the returned context has it; after a successful remove the  *)
(* receiver still has v); calculate_type and reduce leave the caller's     *)
(* context unchanged.                                                      *)
(***************************************************************************)
C15_NonMutating ==
    [][/\ \A v \in CtxVars, t \in DeclTyps : Extend(v, t) =>
              /\ ctx' = ctx
              /\ (res'.ok /\ ~Has(ctx, v)) => ~Has(ctx', v) /\ Has(res'.val, v)
       /\ \A v \in CtxVars : Remove(v) =>
              /\ ctx' = ctx
              /\ res'.ok => Has(ctx', v) /\ ~Has(res'.val, v)
       /\ (Type \/ Show) => ctx' = ctx]_vars

\* extend has returned a context with a variable that the receiver, which
\* has other bindings, still lacks.
C15_Witness ==
    /\ op = "extend" /\ res.ok
    /\ DOMAIN ctx # {}
    /\ \E v \in DOMAIN res.val : ~Has(ctx, v)

(***************************************************************************)
(* C16. Ctx.remove(v): when v is bound it returns a context that lacks v   *)
(* and agrees with the receiver on every other variable; when v is not     *)
(* bound it fails with an unknown-variable error carrying v. The subtract  *)
(* of the VAR rule gives the same result.                                  *)
(***************************************************************************)
C16_RemoveContract ==
    [][\A v \in CtxVars : Remove(v) =>
          /\ Has(ctx, v) =>
                /\ res'.ok
                /\ DOMAIN res'.val = DOMAIN ctx \ {v}
                /\ \A w \in DOMAIN res'.val : res'.val[w] = ctx[w]
          /\ ~Has(ctx, v) => res' = Err(TypeUnknownErr(v))
          /\ CtxSubtract(ctx, v) = res']_vars

\* remove has returned a context that lacks one variable of the receiver and
\* keeps another.
C16_Witness ==
    /\ op = "remove" /\ res.ok
    /\ DOMAIN res.val # {}
    /\ DOMAIN res.val # DOMAIN ctx
    /\ \A w \in DOMAIN res.val : Has(ctx, w) /\ res.val[w] = ctx[w]

\* λx:T.λz:y.z: λx:T.λx:y.x with the inner binder given a name of its own.
ExShadowRenamed == NewAbs("x", NewVar("T"), NewAbs("z", NewVar("y"), NewVar("z")))

(***************************************************************************)
(* C17. Shadowing is permitted: λx:A.λx:B.x, with A and B different and    *)
(* both of type *, which is typable when the inner binder has a name of    *)
(* its own, is not rejected by calculate_type with a redeclaration error.  *)
(***************************************************************************)
C17_ShadowingPermitted ==
    (/\ op = "type" /\ exp = ExShadow
     /\ CalculateType(ExShadowRenamed, ctx).ok)
    => ~(~res.ok /\ res.err.kind = "TypeRedeclErr")

\* The sub-expressions of an expression, itself included.
RECURSIVE SubExps(_)
SubExps(e) ==
    {e} \cup
    CASE e.k \in {"Abs", "For"} -> SubExps(e.t) \cup SubExps(e.e)
      [] e.k = "App" -> SubExps(e.f) \cup SubExps(e.s)
      [] OTHER -> {}

\* Every index of the expression has a depth of 0 or more: Idx.dec, which
\* computes depth - 1 on an unsigned integer, was not called at depth 0.
RECURSIVE NatDepths(_)
NatDepths(e) ==
    CASE e.k = "Idx" -> e.n >= 0
      [] e.k \in {"Abs", "For"} -> NatDepths(e.t) /\ NatDepths(e.e)
      [] e.k = "App" -> NatDepths(e.f) /\ NatDepths(e.s)
      [] OTHER -> TRUE

\* A Result of calculate_type or reduce: Ok with an expression, or Err with
\* one of the four typing errors.
IsResult(r) ==
    /\ DOMAIN r \in {{"ok", "val"}, {"ok", "err"}}
    /\ r.ok => NatDepths(r.val)
    /\ ~r.ok => r.err.kind \in
            {"TypeCompatErr", "TypeUndefErr", "TypeUnknownErr", "TypeRedeclErr"}

\* The indices that subst tracks: Idx::new, incremented once per binder entered.
Locs == {Idx(n, "x") : n \in 0..MaxLoc}

(***************************************************************************)
(* C18. Failures are values: for every expression built with the           *)
(* constructors and every context, calculate_type and reduce return Ok or  *)
(* one of the typing errors, and subst, on any part of the expression or   *)
(* of the result and at any tracked depth, never calls Idx.dec on an index *)
(* of depth 0.                                                             *)
(***************************************************************************)
C18_FailuresAreValues ==
    op \in {"type", "show"} =>
        /\ IsResult(res)
        /\ \A e \in SubExps(exp) \cup (IF res.ok THEN SubExps(res.val) ELSE {}) :
                \A loc \in Locs : NatDepths(Subst(e, loc, T))

\* λy:T.((λx:*.y) T) has been reduced to λy:T.y: subst has decremented the
\* depth 1 of the occurrence of y to 0.
C18_Witness ==
    /\ op = "show" /\ exp = ExOuterRef
    /\ exp.e.f.e = IdxE(1, "y")
    /\ res = Ok(Abs("y", T, IdxE(0, "y")))

Branch(l, r) == [ltree |-> l, rtree |-> r]
BranchNew == Branch(FALSE, FALSE)
\* Default::default() of Branch (derived): both flags false.
BranchDefault == Branch(FALSE, FALSE)
\* The flags fmt_app passes to the function side and to the argument side.
FstFlags(flags) == Branch(~flags.rtree, flags.rtree)
SndFlags(flags) == Branch(flags.ltree, ~flags.rtree)

Parens(parens, func) == IF parens THEN <<"(">> \o func \o <<")">> ELSE func

RECURSIVE Fmt(_, _)
FmtBinder(flags, binder, var, typ, e) ==
    Parens(flags.ltree,
           <<binder, var, " : ">> \o Fmt(typ, BranchDefault)
               \o <<" . ">> \o Fmt(e, BranchDefault))
FmtApp(flags, fst, snd) ==
    Parens(flags.rtree,
           Fmt(fst, FstFlags(flags)) \o <<" ">> \o Fmt(snd, SndFlags(flags)))
Fmt(e, flags) ==
    CASE e.k \in {"Var", "Idx"} -> <<e.v>>
      [] e.k = "Abs" -> FmtBinder(flags, "λ", e.v, e.t, e.e)
      [] e.k = "For" -> FmtBinder(flags, "Π", e.v, e.t, e.e)
      [] e.k = "App" -> FmtApp(flags, e.f, e.s)
      [] e.k = "TypeMeta" -> <<"*">>
      [] e.k = "KindMeta" -> <<"□">>

\* The pieces written, as one string.
RECURSIVE Join(_)
Join(ts) == IF ts = <<>> THEN "" ELSE Head(ts) \o Join(Tail(ts))
\* Display for Exp
ExpToString(e) == Join(Fmt(e, BranchNew))

(***************************************************************************)
(* The rendering session: the caller builds an expression bottom-up with   *)
(* the constructors and renders it.                                        *)
(***************************************************************************)
\* (λy:b.y) t, the expression of test_exp_rend_0013
ExRend0013 ==
    NewApp(NewAbs("y", NewVar("b"), NewVar("y")), NewVar("t"))
\* (λy:(λy:b.y) t.y r) t, the expression of test_exp_rend_0014
ExRend0014 ==
    NewApp(NewAbs("y",
               NewApp(NewAbs("y", NewVar("b"), NewVar("y")), NewVar("t")),
               NewApp(NewVar("y"), NewVar("r"))),
           NewVar("t"))
RendNames == {"y"}
\* The other operand of a constructor call: t, Πy:b.y, or (λy:b.y) t.
RendOperands ==
    {NewVar("t"), NewFor("y", NewVar("b"), NewVar("y")), ExRend0013}

\* x (y z), the expression of test_exp_rend_0016
ExRend0016 == NewApp(NewVar("x"), NewApp(NewVar("y"), NewVar("z")))
\* x y z, the expression of test_exp_rend_0017
ExRend0017 == NewApp(NewApp(NewVar("x"), NewVar("y")), NewVar("z"))
\* x (λy:*.λw:*.w) m, the expression of test_exp_rend_0021
ExRend0021 ==
    NewApp(NewApp(NewVar("x"),
                  NewAbs("y", TypeMeta, NewAbs("w", TypeMeta, NewVar("w")))),
           NewVar("m"))
\* x ((y z) w): a left-nested application inside the argument of an application
ExLeftInRight ==
    NewApp(NewVar("x"), NewApp(NewApp(NewVar("y"), NewVar("z")), NewVar("w")))
\* x (y (z w)): a right-nested application inside the argument of an application
ExRightInRight ==
    NewApp(NewVar("x"), NewApp(NewVar("y"), NewApp(NewVar("z"), NewVar("w"))))
RendExamples ==
    {ExRend0013, ExRend0014, ExRend0016, ExRend0017, ExRend0021,
     ExLeftInRight, ExRightInRight}

InitRend ==
    /\ ctx = CtxNew
    /\ exp \in {NewVar("x")} \cup RendExamples
    /\ op = "new"
    /\ res = OkUnit

\* exp.to_string()
Render ==
    /\ op' = "to_string"
    /\ res' = Ok(ExpToString(exp))
    /\ UNCHANGED <<ctx, exp>>

NextRend ==
    \/ \E v \in RendNames, t \in RendOperands : AbsBody(v, t)
    \/ \E v \in RendNames, b \in RendOperands : AbsAnnot(v, b)
    \/ \E v \in RendNames, t \in RendOperands : ForBody(v, t)
    \/ \E v \in RendNames, b \in RendOperands : ForAnnot(v, b)
    \/ \E s \in RendOperands : AppFst(s)
    \/ \E f \in RendOperands : AppSnd(f)
    \/ Render

SpecRend == InitRend /\ [][NextRend]_vars

\* In the rendering of e under the flags, every λ or Π that is the function
\* side of an application is written inside parentheses, and every λ or Π
\* that is the annotation or the body of a binder is written without them.
RECURSIVE BindersParenthesized(_, _)
BindersParenthesized(e, flags) ==
    CASE e.k = "App" ->
            /\ e.f.k \in {"Abs", "For"} =>
                    LET r == Fmt(e.f, FstFlags(flags))
                    IN Head(r) = "(" /\ r[Len(r)] = ")"
            /\ BindersParenthesized(e.f, FstFlags(flags))
            /\ BindersParenthesized(e.s, SndFlags(flags))
      [] e.k \in {"Abs", "For"} ->
            /\ e.t.k \in {"Abs", "For"} => Head(Fmt(e.t, BranchDefault)) # "("
            /\ e.e.k \in {"Abs", "For"} => Head(Fmt(e.e, BranchDefault)) # "("
            /\ BindersParenthesized(e.t, BranchDefault)
            /\ BindersParenthesized(e.e, BranchDefault)
      [] OTHER -> TRUE

(***************************************************************************)
(* C20. Rendering parenthesizes binders where required: every λ or Π that  *)
(* is the function side of an application is rendered inside parentheses,  *)
(* at any nesting depth, also when that application is the parenthesized   *)
(* argument of another application; a λ or Π at top level, or as the       *)
(* annotation or body of a binder, is rendered without parentheses.        *)
(* (λy:b.y) t is rendered "(λy : b . y) t" and (λy:(λy:b.y) t.y r) t is    *)
(* rendered "(λy : (λy : b . y) t . y r) t".                               *)
(***************************************************************************)
C20_BinderParens ==
    op = "to_string" =>
        /\ BindersParenthesized(exp, BranchNew)
        /\ exp.k \in {"Abs", "For"} => Head(Fmt(exp, BranchNew)) # "("
        /\ exp = ExRend0013 => res = Ok("(λy : b . y) t")
        /\ exp = ExRend0014 => res = Ok("(λy : (λy : b . y) t . y r) t")

\* What fmt_app writes between the parentheses it may add.
AppInner(e, flags) ==
    Fmt(e.f, FstFlags(flags)) \o <<" ">> \o Fmt(e.s, SndFlags(flags))

\* In the rendering of e under the flags, every application that is the
\* argument of an application is written inside parentheses and every
\* application that is the function side of an application is written
\* without parentheses of its own.
RECURSIVE AppsParenthesized(_, _)
AppsParenthesized(e, flags) ==
    CASE e.k = "App" ->
            /\ e.s.k = "App" =>
                    Fmt(e.s, SndFlags(flags))
                        = <<"(">> \o AppInner(e.s, SndFlags(flags)) \o <<")">>
            /\ e.f.k = "App" =>
                    Fmt(e.f, FstFlags(flags)) = AppInner(e.f, FstFlags(flags))
            /\ AppsParenthesized(e.f, FstFlags(flags))
            /\ AppsParenthesized(e.s, SndFlags(flags))
      [] e.k \in {"Abs", "For"} ->
            /\ AppsParenthesized(e.t, BranchDefault)
            /\ AppsParenthesized(e.e, BranchDefault)
      [] OTHER -> TRUE

(***************************************************************************)
(* C21. Rendering writes application as left-associative with minimal      *)
(* parentheses: an application that is the argument of an application is   *)
(* parenthesized, and one that is the function side of an application is   *)
(* not, at any nesting depth, also inside a parenthesized argument.        *)
(* x (y z) is rendered "x (y z)", (x y) z is rendered "x y z",             *)
(* x (λy:*.λw:*.w) m is rendered "x (λy : * . λw : * . w) m", x ((y z) w)  *)
(* is rendered "x (y z w)" and x (y (z w)) is rendered "x (y (z w))".      *)
(***************************************************************************)
C21_AppParens ==
    op = "to_string" =>
        /\ AppsParenthesized(exp, BranchNew)
        /\ exp = ExRend0016 => res = Ok("x (y z)")
        /\ exp = ExRend0017 => res = Ok("x y z")
        /\ exp = ExRend0021 => res = Ok("x (λy : * . λw : * . w) m")
        /\ exp = ExLeftInRight => res = Ok("x (y z w)")
        /\ exp = ExRightInRight => res = Ok("x (y (z w))")

(***************************************************************************)
(* C22. FORM yields a sort: whenever the type of a Π type Πx:A.B is        *)
(* derived, it is * or □; a Π whose body is a term, as in Πx:T.x with      *)
(* T : *, is not given the type T of that term.                            *)
(***************************************************************************)
C22_FormYieldsSort ==
    (op = "type" /\ exp.k = "For" /\ res.ok) => IsSort(res)

(***************************************************************************)
(* C23. calculate_type returns a normalized type: every type derived for   *)
(* the expression or for a part of it is in beta-normal form, with no      *)
(* application whose function side is a literal λ, also in the parameter   *)
(* annotation that the ABST rule copies into the Π it returns.             *)
(***************************************************************************)
C23_TypeNormalized ==
    op = "type" =>
        \A e \in SubExps(exp) :
            LET r == IF e = exp THEN res ELSE CalculateType(e, ctx)
            IN r.ok => NoRedex(r.val)

\* The name x occurs unresolved in e outside the body of every binder of e
\* that rebinds x (the annotation of such a binder is outside its body).
RECURSIVE OccursUnresolved(_, _)
OccursUnresolved(e, x) ==
    CASE e.k = "Var" -> e.v = x
      [] e.k \in {"Abs", "For"} ->
            OccursUnresolved(e.t, x) \/ (e.v # x /\ OccursUnresolved(e.e, x))
      [] e.k = "App" -> OccursUnresolved(e.f, x) \/ OccursUnresolved(e.s, x)
      [] OTHER -> FALSE

(***************************************************************************)
(* C24. Indexing is complete within a binder's scope: after                *)
(* new_abs(x, A, body) or new_for(x, A, body) no occurrence of the name x  *)
(* in body outside the body of a nested binder rebinding x is left         *)
(* unresolved, wherever it occurs, the parameter annotations of nested     *)
(* binders included.                                                       *)
(***************************************************************************)
C24_IndexComplete ==
    exp.k \in {"Abs", "For"} => ~OccursUnresolved(exp.e, exp.v)

\* What subst(loc, r) does at the node e, given what it does below it.
SubstByDepth(e, loc, r) ==
    LET s == Subst(e, loc, r)
    IN CASE e.k = "Idx" ->
                s = IF e.n = loc.n THEN r
                    ELSE IF e.n > loc.n THEN IdxE(e.n - 1, e.v)
                    ELSE e
         [] e.k \in {"Abs", "For"} ->
                /\ s.k = e.k /\ s.v = e.v
                /\ s.e = Subst(e.e, Idx(loc.n + 1, loc.v), r)
         [] e.k = "App" -> s = App(Subst(e.f, loc, r), Subst(e.s, loc, r))
         [] OTHER -> s = e

(***************************************************************************)
(* C25. subst(loc, r) acts on variable occurrences by depth only: a bound  *)
(* occurrence whose depth is loc's is replaced by a copy of r, whatever    *)
(* its name; one of greater depth gets its depth decremented by one and    *)
(* keeps its name; one of smaller depth is unchanged; free occurrences and *)
(* the sorts are unchanged; loc is incremented by one on entering the body *)
(* of an Abs or For and kept for both sides of an App.                     *)
(***************************************************************************)
C25_SubstByDepth ==
    op \in {"type", "show"} =>
        \A e \in SubExps(exp) \cup (IF res.ok THEN SubExps(res.val) ELSE {}) :
            \A loc \in Locs, r \in {T, IdxE(0, "y")} : SubstByDepth(e, loc, r)

\* λy:T.((λx:T.λz:T.x) y) has been reduced: under λz the occurrence of x, of
\* depth 1, was replaced by a copy of the argument, the occurrence of y of
\* depth 0.
C25_Witness ==
    /\ op = "show" /\ exp = ExCapture
    /\ exp.e.f.e.e = IdxE(1, "x")
    /\ res = Ok(Abs("y", T, Abs("z", T, IdxE(0, "y"))))

(***************************************************************************)
(* C26. Reduction succeeds on well-typed input: whenever the type of the   *)
(* expression is derived under ctx, reduce returns Ok under ctx, also for  *)
(* a λ or Π whose body mentions its own variable, as λx:T.x under T : *    *)
(* with x not declared.                                                    *)
(***************************************************************************)
C26_ReduceSucceeds ==
    (op = "show" /\ CalculateType(exp, ctx).ok) => res.ok

(***************************************************************************)
(* C27. Type preservation under reduction: if the type of e under ctx is   *)
(* T and reduce(e, ctx) returns e2, the type of e2 under ctx is derived    *)
(* and is T.                                                               *)
(***************************************************************************)
C27_TypePreserved ==
    (op = "show" /\ res.ok /\ CalculateType(exp, ctx).ok) =>
        CalculateType(res.val, ctx) = CalculateType(exp, ctx)

(***************************************************************************)
(* C28. The ordering of Idx agrees with its equality: cmp(a, b) is Equal   *)
(* if and only if a == b, so that subst does not treat a bound occurrence  *)
(* of the depth of loc but of another name as loc.                         *)
(***************************************************************************)
C28_OrdAgreesWithEq ==
    op \in {"type", "show"} =>
        \A e \in {s \in SubExps(exp) : s.k = "Idx"}, loc \in Locs :
            /\ IdxCmp(Idx(e.n, e.v), loc) = "Equal" <=> Idx(e.n, e.v) = loc
            /\ Idx(e.n, e.v) # loc => Subst(e, loc, TypeMeta) # TypeMeta

(***************************************************************************)
(* The edit buffer (buf.rs) and the key maps (key.rs).                     *)
(*                                                                         *)
(* raw is the sequence of the chars of the String; idx counts bytes, as    *)
(* String::len, String::insert and String::remove do.  In this session     *)
(* ctx holds the Buf the editor loop owns, exp the input evaluated last,   *)
(* and res the answer of eval and the number of evaluations it made.       *)
(* key.rs calls the input type BufCmd; buf.rs defines it as Inp.           *)
(***************************************************************************)

\* Largest number of chars the session lets raw grow to
MaxRaw == 3

\* usize::MAX, the count of Home and End.  The model keeps the largest
\* integer the checker represents: what matters is that it exceeds every
\* length of raw.
UsizeMax == 2147483647

ESC == "\\"
CharL == "l"
CharLambda == "lambda"
CharPi == "pi"
CharBox == "box"
CharNewline == "newline"
\* U+0301, a combining mark (Grapheme_Extend)
CharAcute == "acute"

\* char::len_utf8
LenUtf8(c) ==
    IF c = CharBox THEN 3
    ELSE IF c \in {CharLambda, CharPi, CharAcute} THEN 2
    ELSE 1

\* unicode_segmentation: a char of class Extend never starts a cluster
\* unless it is the first of the text or follows a control (rules GB4, GB9)
IsExtend(c) == c = CharAcute
IsControl(c) == c = CharNewline

RECURSIVE StrLen(_)
\* String::len, in bytes
StrLen(raw) == IF raw = <<>> THEN 0 ELSE LenUtf8(Head(raw)) + StrLen(Tail(raw))

RECURSIVE CharPos(_, _)
\* Number of the chars of raw that start before the byte offset idx
CharPos(raw, idx) ==
    IF raw = <<>> \/ idx <= 0 THEN 0
    ELSE 1 + CharPos(Tail(raw), idx - LenUtf8(Head(raw)))

\* String::insert(idx, chr), for idx on a char boundary
StrInsert(raw, idx, chr) ==
    LET p == CharPos(raw, idx)
    IN  SubSeq(raw, 1, p) \o <<chr>> \o SubSeq(raw, p + 1, Len(raw))

\* String::remove(idx), for idx on a char boundary before the end
StrRemove(raw, idx) ==
    LET p == CharPos(raw, idx)
    IN  SubSeq(raw, 1, p) \o SubSeq(raw, p + 2, Len(raw))

\* &raw[idx..]
StrFrom(raw, idx) == SubSeq(raw, CharPos(raw, idx) + 1, Len(raw))

RECURSIVE ExtendRun(_)
\* Number of the leading chars of raw that are of class Extend
ExtendRun(raw) ==
    IF raw = <<>> \/ ~IsExtend(Head(raw)) THEN 0 ELSE 1 + ExtendRun(Tail(raw))

RECURSIVE Graphemes(_)
\* raw.graphemes(true): the extended grapheme clusters of raw, in order
Graphemes(raw) ==
    IF raw = <<>> THEN <<>>
    ELSE LET n == IF IsControl(Head(raw)) THEN 0 ELSE ExtendRun(Tail(raw))
         IN  <<SubSeq(raw, 1, 1 + n)>> \o Graphemes(SubSeq(raw, 2 + n, Len(raw)))

\* Buf
Buf(raw, idx, esc, trm) == [raw |-> raw, idx |-> idx, esc |-> esc, trm |-> trm]
\* Buf::new
BufNew == Buf(<<>>, 0, FALSE, FALSE)

\* Inp
Noop == [k |-> "Noop"]
Exit == [k |-> "Exit"]
Esc(val) == [k |-> "Esc", val |-> val]
Compose(fst, snd) == [k |-> "Compose", fst |-> fst, snd |-> snd]
Repeat(cmd, cnt) == [k |-> "Repeat", cmd |-> cmd, cnt |-> cnt]
Push(chr) == [k |-> "Push", chr |-> chr]
Delete == [k |-> "Delete"]
Clear == [k |-> "Clear"]
MoveLt == [k |-> "MoveLt"]
MoveRt == [k |-> "MoveRt"]

\* The outcome of one call of eval: the buffer it leaves, its answer, and
\* the calls of eval made, innermost first, each with its answer
Evaluated(buf, ans, log) == [buf |-> buf, ans |-> ans, log |-> log]
Logged(inp, r) ==
    Evaluated(r.buf, r.ans, r.log \o <<[inp |-> inp, ans |-> r.ans]>>)

\* Inp::Push
EvalPush(chr, buf) ==
    IF StrLen(buf.raw) < UsizeMax
    THEN LET old_len == StrLen(buf.raw)
             raw == StrInsert(buf.raw, buf.idx, chr)
         IN  Evaluated([buf EXCEPT !.raw = raw,
                                   !.idx = buf.idx + (StrLen(raw) - old_len)],
                       TRUE, <<>>)
    ELSE Evaluated(buf, FALSE, <<>>)

RECURSIVE RemoveChars(_, _, _)
\* for _ in 0..wid { raw.remove(idx) }
RemoveChars(raw, idx, wid) ==
    IF wid = 0 THEN raw ELSE RemoveChars(StrRemove(raw, idx), idx, wid - 1)

\* Inp::Delete
EvalDelete(buf) ==
    IF StrLen(buf.raw) > buf.idx
    THEN LET nxt == Graphemes(StrFrom(buf.raw, buf.idx))
             wid == IF nxt = <<>> THEN 0 ELSE Len(Head(nxt))
         IN  Evaluated([buf EXCEPT !.raw = RemoveChars(buf.raw, buf.idx, wid)],
                       TRUE, <<>>)
    ELSE Evaluated(buf, FALSE, <<>>)

RECURSIVE MoveLtScan(_, _, _, _)
\* The loop of Inp::MoveLt over the clusters gs: cnt - rev when it ends
MoveLtScan(gs, idx, cnt, rev) ==
    IF gs = <<>> \/ idx = cnt THEN cnt - rev
    ELSE MoveLtScan(Tail(gs), idx, cnt + StrLen(Head(gs)), StrLen(Head(gs)))

\* Inp::MoveLt
EvalMoveLt(buf) ==
    IF buf.idx = 0 THEN Evaluated(buf, FALSE, <<>>)
    ELSE Evaluated([buf EXCEPT !.idx = MoveLtScan(Graphemes(buf.raw), buf.idx, 0, 0)],
                   TRUE, <<>>)

RECURSIVE MoveRtScan(_, _, _, _)
\* The loop of Inp::MoveRt over the clusters gs: cnt when it ends
MoveRtScan(gs, idx, cnt, lst) ==
    IF gs = <<>> \/ lst THEN cnt
    ELSE MoveRtScan(Tail(gs), idx, cnt + StrLen(Head(gs)), idx = cnt)

\* Inp::MoveRt
EvalMoveRt(buf) ==
    IF buf.idx = StrLen(buf.raw) THEN Evaluated(buf, FALSE, <<>>)
    ELSE Evaluated([buf EXCEPT !.idx = MoveRtScan(Graphemes(buf.raw), buf.idx, 0, FALSE)],
                   TRUE, <<>>)

RECURSIVE InpEval(_, _), EvalCompose(_, _, _), EvalRepeat(_, _, _, _)

\* A Compose that evaluates snd whatever fst answers
EvalComposeBoth(fst, snd, buf) ==
    LET a == InpEval(fst, buf)
        b == InpEval(snd, a.buf)
    IN  Evaluated(b.buf, a.ans /\ b.ans, a.log \o b.log)

\* Inp::Compose: fst.eval(buf) && snd.eval(buf)
EvalCompose(fst, snd, buf) ==
    LET a == InpEval(fst, buf)
    IN  IF a.ans
        THEN LET b == InpEval(snd, a.buf)
             IN  Evaluated(b.buf, b.ans, a.log \o b.log)
        ELSE a

\* Inp::Repeat: the loop for _ in 0..cnt, entered with the log of the
\* evaluations made so far; ans is true when the loop runs to its end
EvalRepeat(cmd, cnt, buf, log) ==
    IF cnt = 0 THEN Evaluated(buf, TRUE, log)
    ELSE LET r == InpEval(cmd, buf)
         IN  IF ~r.ans THEN Evaluated(r.buf, FALSE, log \o r.log)
             ELSE EvalRepeat(cmd, cnt - 1, r.buf, log \o r.log)

\* Inp::eval
InpEval(inp, buf) ==
    Logged(inp,
        CASE inp.k = "Noop" -> Evaluated(buf, TRUE, <<>>)
          [] inp.k = "Exit" -> Evaluated([buf EXCEPT !.trm = TRUE], TRUE, <<>>)
          [] inp.k = "Esc" -> Evaluated([buf EXCEPT !.esc = inp.val], TRUE, <<>>)
          [] inp.k = "Compose" -> EvalCompose(inp.fst, inp.snd, buf)
          [] inp.k = "Repeat" -> EvalRepeat(inp.cmd, inp.cnt, buf, <<>>)
          [] inp.k = "Push" -> EvalPush(inp.chr, buf)
          [] inp.k = "Delete" -> EvalDelete(buf)
          [] inp.k = "Clear" -> Evaluated(BufNew, TRUE, <<>>)
          [] inp.k = "MoveLt" -> EvalMoveLt(buf)
          [] inp.k = "MoveRt" -> EvalMoveRt(buf))

\* KeyEvent, by its code
KeyChar(chr) == [code |-> "Char", chr |-> chr]
KeyCode(code) == [code |-> code]
None == [k |-> "None"]

\* DefKeyMap::convert (Up, Down, PageUp, PageDown, Tab and BackTab end the
\* program in todo!() and are no input of the session)
Backspace == Compose(MoveLt, Delete)
Home == Repeat(MoveLt, UsizeMax)
End == Repeat(MoveRt, UsizeMax)
DefKeyMap(buf, evt) ==
    CASE evt.code = "Char" -> IF evt.chr = ESC THEN Esc(TRUE) ELSE Push(evt.chr)
      [] evt.code = "Delete" -> Delete
      [] evt.code = "Backspace" -> Backspace
      [] evt.code = "Left" -> MoveLt
      [] evt.code = "Right" -> MoveRt
      [] evt.code = "Home" -> Home
      [] evt.code = "End" -> End
      [] evt.code = "Esc" -> Clear
      [] evt.code = "Enter" -> Exit
      [] OTHER -> None

\* FixKeyMap::convert
FixKeyMap(buf, evt) == None

\* EscKeyMap::convert
EscKeyMap(buf, evt) ==
    IF buf.esc
    THEN Compose(CASE evt = KeyChar(CharL) -> Push(CharLambda)
                   [] evt = KeyChar("p") -> Push(CharPi)
                   [] evt = KeyChar("*") -> Push(CharBox)
                   [] evt = KeyChar(ESC) -> Push(ESC)
                   [] evt = KeyCode("Enter") -> Push(CharNewline)
                   [] OTHER -> Noop,
                 Esc(FALSE))
    ELSE None

\* Buf::read, for a key event
BufRead(buf, evt) ==
    IF EscKeyMap(buf, evt) # None THEN EscKeyMap(buf, evt)
    ELSE IF FixKeyMap(buf, evt) # None THEN FixKeyMap(buf, evt)
    ELSE IF DefKeyMap(buf, evt) # None THEN DefKeyMap(buf, evt)
    ELSE Noop

KeyChars == {CharL, CharAcute, ESC}
KeyEvents ==
    {KeyChar(c) : c \in KeyChars}
        \cup {KeyCode(c) : c \in {"Delete", "Backspace", "Left", "Right",
                                  "Home", "End", "Esc", "Enter", "F1"}}

\* Inputs no key produces: combinations of the inputs of the buffer
Combined ==
    {Repeat(Delete, 2), Repeat(MoveLt, 1), Repeat(MoveRt, 0),
     Compose(MoveRt, Delete), Compose(Push(CharL), MoveRt),
     Compose(Backspace, Push(CharAcute)), Repeat(Backspace, 2)}

InitBuf ==
    /\ ctx = BufNew
    /\ exp = Noop
    /\ op = "new"
    /\ res = [ans |-> TRUE, cnt |-> 0]

\* inp.eval(&mut buf), and what the session records of it
Evaluate(inp) ==
    LET r == InpEval(inp, ctx)
    IN  /\ Len(r.buf.raw) <= MaxRaw
        /\ ctx' = r.buf
        /\ exp' = inp
        /\ res' = [ans |-> r.ans, cnt |-> Len(r.log)]

\* One turn of the loop of Edt::read: read a key, evaluate its input; the
\* loop ends once the buffer is terminal
Key(evt) ==
    /\ ~ctx.trm
    /\ Evaluate(BufRead(ctx, evt))
    /\ op' = "key"

\* eval of an input that is built directly
Eval(inp) ==
    /\ ~ctx.trm
    /\ Evaluate(inp)
    /\ op' = "eval"

NextBuf ==
    \/ \E evt \in KeyEvents : Key(evt)
    \/ \E inp \in Combined : Eval(inp)

SpecBuf == InitBuf /\ [][NextBuf]_vars

\* idx is the byte offset of the start of a cluster of raw, or its end
RECURSIVE BytesOf(_)
BytesOf(gs) == IF gs = <<>> THEN 0 ELSE StrLen(Head(gs)) + BytesOf(Tail(gs))
IsGraphemeBoundary(raw, idx) ==
    \E p \in 0..Len(Graphemes(raw)) : BytesOf(SubSeq(Graphemes(raw), 1, p)) = idx

\* The inputs that are neither Compose nor Repeat
IsPrimitive(inp) == inp.k \notin {"Compose", "Repeat"}

(***************************************************************************)
(* C29. Cursor invariant of the edit buffer: after every input evaluated   *)
(* from a new buffer, 0 <= idx <= the length of raw and idx lies on a      *)
(* grapheme boundary of raw; and an input that answers false (MoveLt at 0, *)
(* MoveRt at the end, Delete at the end) leaves raw and idx as they were.  *)
(***************************************************************************)
C29_CursorInvariant ==
    [][/\ ctx'.idx \in 0..StrLen(ctx'.raw)
       /\ IsGraphemeBoundary(ctx'.raw, ctx'.idx)
       /\ (IsPrimitive(exp') /\ ~res'.ans) =>
              (ctx'.raw = ctx.raw /\ ctx'.idx = ctx.idx)]_vars

\* The evaluations of inp among the calls of log, in order
EvalsOf(log, inp) == LET Test(e) == e.inp = inp IN SelectSeq(log, Test)
\* The evaluations of log that answered true
Succeeded(log) == LET Test(e) == e.ans IN SelectSeq(log, Test)

(***************************************************************************)
(* C30. Composite inputs short-circuit.  Compose(a, b) evaluates b only if *)
(* a succeeded, and succeeds iff both do.  Repeat(c, n) evaluates c at     *)
(* most n times and stops at the first evaluation that fails.  Hence Home  *)
(* and End (MoveLt and MoveRt repeated usize::MAX times) end after at most *)
(* length-of-raw moves with the cursor at 0 and at the end, and Backspace  *)
(* (MoveLt then Delete) at idx 0 leaves the buffer unchanged.              *)
(***************************************************************************)
C30_ShortCircuit ==
    [][op' \in {"key", "eval"} =>
        LET r == InpEval(exp', ctx)
        IN  /\ exp'.k = "Compose" =>
                LET a == InpEval(exp'.fst, ctx)
                IN  /\ res'.ans <=> (a.ans /\ InpEval(exp'.snd, a.buf).ans)
                    /\ ~a.ans => (ctx' = a.buf /\ EvalsOf(r.log, exp'.snd) = <<>>)
            /\ exp'.k = "Repeat" =>
                LET es == EvalsOf(r.log, exp'.cmd)
                IN  /\ Len(es) <= exp'.cnt
                    /\ \A i \in 1..(Len(es) - 1) : es[i].ans
                    /\ res'.ans <=> (Len(es) = exp'.cnt /\ \A i \in 1..Len(es) : es[i].ans)
            /\ exp' = Home =>
                /\ ctx' = [ctx EXCEPT !.idx = 0]
                /\ Len(Succeeded(EvalsOf(r.log, MoveLt))) <= StrLen(ctx.raw)
            /\ exp' = End =>
                /\ ctx' = [ctx EXCEPT !.idx = StrLen(ctx.raw)]
                /\ Len(Succeeded(EvalsOf(r.log, MoveRt))) <= StrLen(ctx.raw)
            /\ (exp' = Backspace /\ ctx.idx = 0) => (ctx' = ctx /\ ~res'.ans)]_vars

\* Home has moved the cursor over two clusters to 0: two moves that
\* succeeded, the move that failed, and the Repeat itself
C30_Witness ==
    /\ op = "key"
    /\ exp = Home
    /\ res = [ans |-> FALSE, cnt |-> 4]
    /\ ctx.idx = 0
    /\ Len(Graphemes(ctx.raw)) >= 2

====
